---- MODULE Spec2Model ----
(***************************************************************************)
(* Prediction screen of playbook-webgl: the GameState object, the handlers *)
(* of zone taps, the continue banner, the server messages and the restore  *)
(* of a saved state, as written in prediction.js and PlaybookEvents.js.    *)
(***************************************************************************)
EXTENDS Integers, Sequences, FiniteSets, TLC

VARIABLES
    bundle,            \* which PlaybookEvents module the build links: "lib" or "part_000"
    stage,             \* state._stage
    score,             \* state.score (a JS value)
    predictionCounts,  \* state.predictionCounts: zone name -> JS value
    selectedTarget,    \* ball.selectedTarget of each ball: a zone name or Null
    isAnimating,       \* ball.isAnimating of each ball
    isBeingDragged,    \* ball.isBeingDragged of each ball
    dragPointerId,     \* ball.dragPointerId of each ball: a touch identifier or Null
    dragTarget,        \* ball.dragTarget of each ball: a zone name or Null
    pointers,          \* the touches that went down on a ball and are still down
    interactive,       \* ball.sprite.interactive of each ball
    continueVisible,   \* continueBanner.visible
    overlays,          \* the number of PredictionCorrectOverlay children of the stage
    lastNotified,      \* the last JSON handed to PlaybookBridge.notifyGameState, if any
    saved,             \* the JSON the hosting application keeps, if any
    trace,             \* the effects of the last handler, in order
    lastEvent,         \* the event the last handler handled
    calc               \* the call of getById or getCentroid that is being evaluated

vars == <<bundle, stage, score, predictionCounts, selectedTarget, isAnimating,
          isBeingDragged, dragPointerId, dragTarget, pointers,
          interactive, continueVisible, overlays, lastNotified, saved, trace, lastEvent,
          calc>>

---------------------------------------------------------------------------
(* Bounds of the model. *)

\* The user taps the last MaxZones zones of the field overlay.
MaxZones == 1
\* A 'server:playsCreated' message carries at most MaxPlays play ids.
MaxPlays == 1
\* Scoring messages are handled while the score is below MaxScore.
MaxScore == 2
\* Scoring messages are handled while at most MaxOverlays overlays would be shown.
MaxOverlays == 1
\* The touch identifiers are 0 .. MaxPointers - 1.
MaxPointers == 1
\* The user drags the first MaxDragged balls.
MaxDragged == 1
\* getById is called with ids up to MaxOutside below 0 and beyond the last id.
MaxOutside == 1

---------------------------------------------------------------------------
(* JavaScript values. *)

Null == "null"
Num(n) == [t |-> "number", n |-> n]
NaN == [t |-> "NaN", n |-> 0]
NullValue == [t |-> "null", n |-> 0]
Undefined == [t |-> "undefined", n |-> 0]

\* a + b of two JS values: undefined and NaN give NaN, null counts as 0.
JSAdd(a, b) ==
    IF a.t \in {"NaN", "undefined"} \/ b.t \in {"NaN", "undefined"}
    THEN NaN
    ELSE Num(a.n + b.n)

\* JSON.stringify followed by JSON.parse of a number: NaN is written as null.
JSONNumber(v) == IF v.t \in {"NaN", "undefined"} THEN NullValue ELSE v

---------------------------------------------------------------------------
(* The PlaybookEvents enumeration, in the two modules of the repository. *)

Bundles == {"lib", "part_000"}

LibMembers ==
    <<"NO_RUNS", "RUN_SCORED", "FLY_OUT", "TRIPLE_PLAY", "DOUBLE_PLAY", "GROUND_OUT",
      "STEAL", "PICK_OFF", "WALK", "BLOCKED_RUN", "STRIKEOUT", "HIT_BY_PITCH",
      "HOME_RUN", "PITCH_COUNT_16", "PITCH_COUNT_17", "SINGLE", "DOUBLE", "TRIPLE",
      "BATTER_COUNT_4", "BATTER_COUNT_5", "MOST_FIELDED_BY_LEFT",
      "MOST_FIELDED_BY_RIGHT", "MOST_FIELDED_BY_INFIELDERS", "MOST_FIELDED_BY_CENTER",
      "UNKNOWN">>

PartMembers ==
    <<"SHUTOUT_INNING", "RUN_SCORED", "FLY_OUT", "TRIPLE_PLAY", "DOUBLE_PLAY",
      "GROUND_OUT", "STEAL", "PICK_OFF", "WALK", "BLOCKED_RUN", "STRIKEOUT",
      "HIT_BY_PITCH", "HOME_RUN", "PITCH_COUNT_16", "PITCH_COUNT_17", "SINGLE",
      "DOUBLE", "TRIPLE", "BATTER_COUNT_4", "BATTER_COUNT_5", "MOST_IN_LEFT_OUTFIELD",
      "MOST_IN_RIGHT_OUTFIELD", "MOST_IN_INFIELD", "UNKNOWN">>

LibEvents ==
    <<"NO_RUNS", "RUN_SCORED", "FLY_OUT", "TRIPLE_PLAY", "DOUBLE_PLAY", "GROUND_OUT",
      "STEAL", "PICK_OFF", "WALK", "BLOCKED_RUN", "STRIKEOUT", "HIT_BY_PITCH",
      "HOME_RUN", "PITCH_COUNT_16", "PITCH_COUNT_17", "SINGLE", "DOUBLE", "TRIPLE",
      "BATTER_COUNT_4", "BATTER_COUNT_5", "MOST_FIELDED_BY_LEFT",
      "MOST_FIELDED_BY_RIGHT", "MOST_FIELDED_BY_INFIELDERS", "MOST_FIELDED_BY_CENTER",
      "UNKNOWN">>

PartEvents ==
    <<"SHUTOUT_INNING", "RUN_SCORED", "FLY_OUT", "TRIPLE_PLAY", "DOUBLE_PLAY",
      "GROUND_OUT", "STEAL", "PICK_OFF", "WALK", "BLOCKED_RUN", "STRIKEOUT",
      "HIT_BY_PITCH", "HOME_RUN", "PITCH_COUNT_16", "PITCH_COUNT_17", "SINGLE",
      "DOUBLE", "TRIPLE", "BATTER_COUNT_4", "BATTER_COUNT_5", "MOST_IN_LEFT_OUTFIELD",
      "MOST_IN_RIGHT_OUTFIELD", "MOST_IN_INFIELD", "UNKNOWN">>

Range(s) == {s[i] : i \in DOMAIN s}

\* The members FriendlyNames of lib/PlaybookEvents.js names as its computed keys.
LibFriendlyMembers ==
    {"NO_RUNS", "RUN_SCORED", "FLY_OUT", "TRIPLE_PLAY", "DOUBLE_PLAY", "GROUND_OUT",
     "STEAL", "PICK_OFF", "WALK", "BLOCKED_RUN", "STRIKEOUT", "HIT_BY_PITCH", "HOME_RUN",
     "PITCH_COUNT_16", "PITCH_COUNT_17", "SINGLE", "DOUBLE", "TRIPLE", "BATTER_COUNT_4",
     "BATTER_COUNT_5", "MOST_FIELDED_BY_LEFT", "MOST_FIELDED_BY_RIGHT",
     "MOST_FIELDED_BY_INFIELDERS", "MOST_FIELDED_BY_CENTER", "UNKNOWN"}

\* The keys of FriendlyNames of part_000.
PartFriendlyNames ==
    {"SHUTOUT_INNING", "RUN_SCORED", "FLY_OUT", "TRIPLE_PLAY", "DOUBLE_PLAY",
     "GROUND_OUT", "STEAL", "PICK_OFF", "WALK", "BLOCKED_RUN", "STRIKEOUT",
     "HIT_BY_PITCH", "HOME_RUN", "PITCH_COUNT_16", "PITCH_COUNT_17", "SINGLE", "DOUBLE",
     "TRIPLE", "BATTER_COUNT_4", "BATTER_COUNT_5", "MOST_IN_LEFT_OUTFIELD",
     "MOST_IN_RIGHT_OUTFIELD", "MOST_IN_INFIELD", "UNKNOWN"}

\* The string members of the PlaybookEvents object of module m.
PlaybookEvents(m) == IF m = "lib" THEN Range(LibMembers) ELSE Range(PartMembers)

\* PlaybookEvents.X: the member's value, or undefined when there is no such member.
EnumValue(m, member) == IF member \in PlaybookEvents(m) THEN member ELSE "undefined"

\* The keys of FriendlyNames of module m.
FriendlyNames(m) ==
    IF m = "lib" THEN {EnumValue(m, member) : member \in LibFriendlyMembers}
    ELSE PartFriendlyNames

\* A getById that counts the ids from 1.
getByIdFromOne(m, id) ==
    LET events == IF m = "lib" THEN LibEvents ELSE PartEvents
    IN  IF id \in 1..Len(events) THEN events[id] ELSE "undefined"

\* PlaybookEvents.getById(id): events[id], undefined outside the array.
getById(m, id) ==
    LET events == IF m = "lib" THEN LibEvents ELSE PartEvents
    IN  IF id \in 0..(Len(events) - 1) THEN events[id + 1] ELSE "undefined"

ScoreValues ==
    [SHUTOUT_INNING |-> 4, RUN_SCORED |-> 4, FLY_OUT |-> 2, TRIPLE_PLAY |-> 1400,
     DOUBLE_PLAY |-> 20, GROUND_OUT |-> 2, STEAL |-> 5, PICK_OFF |-> 7, WALK |-> 3,
     BLOCKED_RUN |-> 10, STRIKEOUT |-> 2, HIT_BY_PITCH |-> 2, HOME_RUN |-> 10,
     PITCH_COUNT_16 |-> 2, PITCH_COUNT_17 |-> 2, SINGLE |-> 3, DOUBLE |-> 5,
     TRIPLE |-> 20, BATTER_COUNT_4 |-> 2, BATTER_COUNT_5 |-> 2,
     MOST_IN_LEFT_OUTFIELD |-> 2, MOST_IN_RIGHT_OUTFIELD |-> 2, MOST_IN_INFIELD |-> 2]

\* ScoreValues[play]: undefined for a play without an entry.
ScoreValue(play) ==
    IF play \in DOMAIN ScoreValues THEN Num(ScoreValues[play]) ELSE Undefined

GameStages == {"INITIAL", "CONTINUE", "CONFIRMED"}

---------------------------------------------------------------------------
(* The field overlay. *)

\* The members createFieldOverlay names as the keys of its areas, in order.
AreaKeyMembers ==
    <<"HOME_RUN", "TRIPLE", "DOUBLE", "SINGLE", "STEAL", "MOST_IN_INFIELD",
      "MOST_IN_RIGHT_OUTFIELD", "MOST_IN_LEFT_OUTFIELD", "SHUTOUT_INNING", "RUN_SCORED",
      "FLY_OUT", "GROUND_OUT", "BATTER_COUNT_5", "BATTER_COUNT_4", "PITCH_COUNT_17",
      "PITCH_COUNT_16", "STRIKEOUT">>

\* The keys of an object literal: a key written twice keeps its first place.
RECURSIVE ObjectKeys(_)
ObjectKeys(keys) ==
    IF keys = <<>> THEN <<>>
    ELSE LET front == ObjectKeys(SubSeq(keys, 1, Len(keys) - 1))
             last == keys[Len(keys)]
         IN  IF last \in Range(front) THEN front ELSE Append(front, last)

\* The names of the FieldOverlayArea children the FieldOverlay is built with.
createFieldOverlay(m) ==
    ObjectKeys([i \in DOMAIN AreaKeyMembers |-> EnumValue(m, AreaKeyMembers[i])])

\* The points arrays of the polygons createFieldOverlay gives the areas, in order.
AreaPolygons ==
    <<
      \* HOME_RUN
      <<720, 1078, 796, 1046, 826, 970, 796, 894, 720, 862, 644, 894, 614, 970, 644, 1046>>,
      \* TRIPLE
      <<530, 1152, 632, 1050, 602, 970, 632, 890, 530, 788, 476, 868, 456, 970, 476, 1072>>,
      \* DOUBLE
      <<538, 780, 640, 882, 720, 854, 800, 882, 902, 780, 824, 730, 720, 708, 616, 730>>,
      \* SINGLE
      <<910, 1152, 964, 1072, 984, 970, 964, 868, 910, 788, 808, 890, 838, 970, 808, 1050>>,
      \* STEAL
      <<538, 1162, 616, 1214, 720, 1236, 824, 1214, 902, 1162, 800, 1060, 720, 1090,
       640, 1060>>,
      \* MOST_IN_INFIELD
      <<12, 966, 172, 966, 720, 422, 1268, 966, 1428, 966, 1398, 766, 1306, 562,
       1202, 452, 1120, 388, 1026, 332, 926, 296, 720, 262, 514, 296, 414, 332,
       320, 388, 238, 452, 134, 562, 42, 766>>,
      \* MOST_IN_RIGHT_OUTFIELD
      <<1428, 830, 1428, 12, 728, 12, 728, 252, 900, 286, 1126, 376, 1328, 568>>,
      \* MOST_IN_LEFT_OUTFIELD
      <<12, 830, 112, 568, 314, 376, 500, 286, 712, 252, 712, 12, 12, 12>>,
      \* SHUTOUT_INNING
      <<726, 442, 726, 696, 916, 778, 996, 966, 1252, 966>>,
      \* RUN_SCORED
      <<714, 442, 188, 966, 444, 966, 524, 778, 714, 696>>,
      \* FLY_OUT
      <<726, 1526, 1252, 978, 1000, 978, 920, 1168, 726, 1250>>,
      \* GROUND_OUT
      <<714, 1526, 714, 1250, 520, 1168, 440, 978, 188, 978>>,
      \* BATTER_COUNT_5
      <<1010, 1242, 1428, 1242, 1428, 980, 1270, 980>>,
      \* BATTER_COUNT_4
      <<720, 1512, 1428, 1512, 1428, 1252, 998, 1252>>,
      \* PITCH_COUNT_17
      <<12, 1242, 430, 1242, 170, 980, 12, 980>>,
      \* PITCH_COUNT_16
      <<12, 1512, 720, 1512, 442, 1252, 12, 1252>>,
      \* STRIKEOUT
      <<12, 1738, 1428, 1738, 1428, 1526, 12, 1526>>
    >>

\* areas[name]: of keys that are the same, the last value stays.
areas(m, name) ==
    LET written == {i \in DOMAIN AreaKeyMembers : EnumValue(m, AreaKeyMembers[i]) = name}
    IN  AreaPolygons[CHOOSE i \in written : \A j \in written : j <= i]

\* The sizes <<width, height>> the texture of the field overlay is loaded with.
TextureSizes == {<<1440, 1750>>, <<2048, 2048>>}

\* The hitArea of the child called name: the points of areas[name], each moved by
\* half the size of the texture.
hitArea(m, name, texture) ==
    LET points == areas(m, name)
    IN  [index \in DOMAIN points |->
            IF (index - 1) % 2 = 0
            THEN points[index] - texture[1] \div 2
            ELSE points[index] - texture[2] \div 2]

\* getCentroid: numPoints, getXAt(i) and getYAt(i) of the points array, i from 0.
numPoints(points) == Len(points) \div 2
getXAt(points, i) == points[(i * 2) + 1]
getYAt(points, i) == points[(i * 2) + 2]

\* getCentroid: what the first loop adds to area for the point i.
AreaTerm(points, i) ==
    IF i = numPoints(points) - 1
    THEN getXAt(points, i) * getYAt(points, 0) - getXAt(points, 0) * getYAt(points, i)
    ELSE getXAt(points, i) * getYAt(points, i + 1)
             - getXAt(points, i + 1) * getYAt(points, i)

\* A number as a fraction num / den, den > 0.
Fraction(num, den) == [num |-> num, den |-> den]

\* area /= 2.
Halve(f) ==
    IF f.num % 2 = 0 THEN Fraction(f.num \div 2, f.den) ELSE Fraction(f.num, f.den * 2)

\* A whole number too large for one machine word, as hi * WideBase + lo with
\* 0 <= lo < WideBase: the sums of the second loop of getCentroid are exact in a
\* JavaScript number but do not fit 32 bits.
WideBase == 65536

Wide(n) == [hi |-> n \div WideBase, lo |-> n % WideBase]

WideAdd(a, b) ==
    [hi |-> a.hi + b.hi + (a.lo + b.lo) \div WideBase, lo |-> (a.lo + b.lo) % WideBase]

\* k * a, for a k of at most 15 bits.
WideTimes(k, a) ==
    [hi |-> k * a.hi + (k * a.lo) \div WideBase, lo |-> (k * a.lo) % WideBase]

WideMinus(a, b) == WideAdd(a, WideTimes(-1, b))

WideLess(a, b) == a.hi < b.hi \/ (a.hi = b.hi /\ a.lo < b.lo)

\* A point with the coordinates x / den and y / den, x and y wide; den = 0 is NaN.
Point(x, y, den) == [x |-> x, y |-> y, den |-> den]

\* getCentroid: what the second loop adds to centroid.x and centroid.y for the point i.
CentroidTermX(points, i) ==
    LET next == IF i = numPoints(points) - 1 THEN 0 ELSE i + 1
    IN  WideTimes(getXAt(points, i) + getXAt(points, next), Wide(AreaTerm(points, i)))

CentroidTermY(points, i) ==
    LET next == IF i = numPoints(points) - 1 THEN 0 ELSE i + 1
    IN  WideTimes(getYAt(points, i) + getYAt(points, next), Wide(AreaTerm(points, i)))

\* centroid.x /= area * 6; centroid.y /= area * 6, for whole centroid.x and centroid.y.
DivideBySixTimes(area, centroid) ==
    IF area.num = 0 THEN Point(centroid.x, centroid.y, 0)
    ELSE IF area.num > 0
    THEN Point(WideTimes(area.den, centroid.x), WideTimes(area.den, centroid.y),
               6 * area.num)
    ELSE Point(WideTimes(0 - area.den, centroid.x), WideTimes(0 - area.den, centroid.y),
               0 - 6 * area.num)

\* PIXI.Polygon.contains(x, y) for the point c: the edges from the point before i to
\* the point i that a ray from c to the right crosses are odd in number.
contains(points, c) ==
    LET n == numPoints(points)
        yAbove(i) == WideLess(c.y, WideTimes(getYAt(points, i), Wide(c.den)))
        \* (c.x - x_i) * (y_j - y_i) and (x_j - x_i) * (c.y - y_i), times c.den.
        left(i, j) ==
            WideTimes(getYAt(points, j) - getYAt(points, i),
                      WideMinus(c.x, WideTimes(getXAt(points, i), Wide(c.den))))
        right(i, j) ==
            WideTimes(getXAt(points, j) - getXAt(points, i),
                      WideMinus(c.y, WideTimes(getYAt(points, i), Wide(c.den))))
        intersect(i, j) ==
            /\ yAbove(i) # yAbove(j)
            /\ IF getYAt(points, j) > getYAt(points, i)
               THEN WideLess(left(i, j), right(i, j))
               ELSE WideLess(right(i, j), left(i, j))
    IN  /\ c.den # 0
        /\ Cardinality({i \in 0..(n - 1) : intersect(i, (i + n - 1) % n)}) % 2 = 1

\* fieldOverlay.getChildByName(name): the child, or null.
getChildByName(m, name) ==
    IF name \in Range(createFieldOverlay(m)) THEN name ELSE Null

---------------------------------------------------------------------------
(* The game state and the operations on it. A store g holds the fields the *)
(* handlers read and write; an action runs a handler on the current store. *)

NumBalls == 5
Balls == 1..NumBalls

Store ==
    [stage |-> stage, score |-> score, predictionCounts |-> predictionCounts,
     selectedTarget |-> selectedTarget, isAnimating |-> isAnimating,
     isBeingDragged |-> isBeingDragged, dragPointerId |-> dragPointerId,
     dragTarget |-> dragTarget,
     interactive |-> interactive, continueVisible |-> continueVisible,
     overlays |-> overlays, lastNotified |-> lastNotified,
     trace |-> <<>>, notified |-> <<>>]

\* One effect of a handler, as kept in the trace.
Effect(op, value, old) == [op |-> op, value |-> value, old |-> old]

Log(g, e) == [g EXCEPT !.trace = Append(@, e)]

\* An uncaught TypeError: the handler stops here.
Throw(g) == Log(g, Effect("throw", "", ""))

Thrown(g) == g.trace # <<>> /\ g.trace[Len(g.trace)].op = "throw"

\* GameState.toJSON, as parsed back by JSON.parse.
toJSON(g) ==
    [stage |-> g.stage,
     score |-> JSONNumber(g.score),
     balls |-> [i \in Balls |-> IF g.selectedTarget[i] # Null
                                THEN g.selectedTarget[i] ELSE Null]]

\* PlaybookBridge.notifyGameState(stateJSON); the trace keeps the stage of the JSON.
notifyGameState(g, json) ==
    Log([g EXCEPT !.lastNotified = <<json>>, !.notified = Append(@, json)],
        Effect("notify", json.stage, ""))

\* The listeners of the stage-changed event: one per ball, one of the continue banner.
emit(g, value, oldValue) ==
    Log([g EXCEPT !.interactive = [b \in Balls |-> value # "CONFIRMED"],
                  !.continueVisible = (value = "CONTINUE")],
        Effect("emit", value, oldValue))

\* A setter that tells nobody when the stage keeps its value.
setStageWhenChanged(g, value) ==
    LET oldValue == g.stage
        g1 == Log([g EXCEPT !.stage = value], Effect("assign", value, oldValue))
        g2 == IF value = oldValue THEN g1 ELSE emit(g1, value, oldValue)
    IN  notifyGameState(g2, toJSON(g2))

\* set stage(value).
setStage(g, value) ==
    LET oldValue == g.stage
        g1 == Log([g EXCEPT !.stage = value], Effect("assign", value, oldValue))
        g2 == emit(g1, value, oldValue)
    IN  notifyGameState(g2, toJSON(g2))

\* counts[name], undefined when there is no entry.
CountOf(counts, name) == IF name \in DOMAIN counts THEN counts[name] ELSE Undefined

SetCount(counts, name, v) ==
    [k \in DOMAIN counts \cup {name} |-> IF k = name THEN v ELSE counts[k]]

DeleteCount(counts, name) == [k \in DOMAIN counts \ {name} |-> counts[k]]

\* undoPrediction(state, area, ball).
undoPrediction(g, area, b) ==
    IF area = Null THEN Throw(g)
    ELSE
      LET dec == JSAdd(CountOf(g.predictionCounts, area), Num(-1))
          counts == IF dec = Num(0)
                    THEN DeleteCount(g.predictionCounts, area)
                    ELSE SetCount(g.predictionCounts, area, dec)
          g1 == [g EXCEPT !.predictionCounts = counts, !.selectedTarget[b] = Null]
          g2 == IF g1.stage = "CONTINUE" THEN setStage(g1, "INITIAL") ELSE g1
      IN  notifyGameState(g2, toJSON(g2))

\* A makePrediction that does not undo the prediction the ball had.
makePredictionOnTop(g, area, b) ==
    LET c0 == IF area \in DOMAIN g.predictionCounts
              THEN g.predictionCounts
              ELSE SetCount(g.predictionCounts, area, Num(0))
        g2 == [g EXCEPT !.selectedTarget[b] = area,
                        !.predictionCounts = SetCount(c0, area, JSAdd(c0[area], Num(1)))]
        g3 == IF \A i \in Balls : g2.selectedTarget[i] # Null
              THEN setStage(g2, "CONTINUE")
              ELSE g2
    IN  notifyGameState(g3, toJSON(g3))

\* makePrediction(state, area, ball).
makePrediction(g, area, b) ==
    LET g1 == IF g.selectedTarget[b] # Null
              THEN undoPrediction(g, g.selectedTarget[b], b)
              ELSE g
        c0 == IF area \in DOMAIN g1.predictionCounts
              THEN g1.predictionCounts
              ELSE SetCount(g1.predictionCounts, area, Num(0))
        g2 == [g1 EXCEPT !.selectedTarget[b] = area,
                         !.predictionCounts = SetCount(c0, area, JSAdd(c0[area], Num(1)))]
        \* The else branch assigns the stage property of the PIXI container.
        g3 == IF \A i \in Balls : g2.selectedTarget[i] # Null
              THEN setStage(g2, "CONTINUE")
              ELSE g2
    IN  notifyGameState(g3, toJSON(g3))

\* Ball._moveToWithAnimation, moveToSlot and moveToField with animation.
moveToWithAnimation(g, b) == [g EXCEPT !.isAnimating[b] = TRUE]

\* handleClearPredictions: the forEach over the balls from ball i on, then the stage.
RECURSIVE clearFrom(_, _)
clearFrom(g, i) ==
    IF i > NumBalls THEN setStage(g, "INITIAL")
    ELSE LET g1 == undoPrediction(g, g.selectedTarget[i], i)
         IN  IF Thrown(g1) THEN g1
             ELSE clearFrom(moveToWithAnimation(g1, i), i + 1)

handleClearPredictions(g) == clearFrom(g, 1)

\* The body of the loop of handlePlaysCreated for one play.
scorePlay(g, play) ==
    LET g1 == [g EXCEPT !.score = JSAdd(g.score, ScoreValue(play))]
        g2 == Log(g1, Effect("report", play, ""))
    IN  Log([g2 EXCEPT !.overlays = @ + 1], Effect("overlay", play, ""))

RECURSIVE scorePlays(_, _)
scorePlays(g, plays) ==
    IF plays = <<>> THEN g
    ELSE scorePlays(scorePlay(g, Head(plays)), Tail(plays))

\* A handlePlaysCreated that scores in every stage.
handlePlaysCreatedInAnyStage(g, m, events) ==
    scorePlays(g, [i \in DOMAIN events |-> getById(m, events[i])])

\* handlePlaysCreated(events).
handlePlaysCreated(g, m, events) ==
    IF g.stage = "CONFIRMED"
    THEN scorePlays(g, [i \in DOMAIN events |-> getById(m, events[i])])
    ELSE g

\* A handleIncomingMessage whose switch falls through to the clearing case.
handleIncomingMessageFallingThrough(g, m, message) ==
    CASE message.event = "server:playsCreated" -> handlePlaysCreated(g, m, message.data)
      [] OTHER -> handleClearPredictions(g)

\* handleIncomingMessage(message).
handleIncomingMessage(g, m, message) ==
    CASE message.event = "server:playsCreated" -> handlePlaysCreated(g, m, message.data)
      [] message.event = "server:clearPredictions" -> handleClearPredictions(g)
      [] OTHER -> g

\* GameState.fromJSON: the forEach over the restored balls from ball i on.
RECURSIVE restoreFrom(_, _, _, _)
restoreFrom(g, m, restoredState, i) ==
    IF i > Len(restoredState.balls) THEN g
    ELSE IF restoredState.balls[i] = Null THEN restoreFrom(g, m, restoredState, i + 1)
    ELSE LET area == getChildByName(m, restoredState.balls[i])
         IN  IF area = Null THEN Throw(g)
             ELSE restoreFrom(makePrediction(g, area, i), m, restoredState, i + 1)

\* A fromJSON that assigns the stage and the score before it restores the balls.
fromJSONStageFirst(g, m, restoredState) ==
    restoreFrom([setStage(g, restoredState.stage) EXCEPT !.score = restoredState.score],
                m, restoredState, 1)

fromJSON(g, m, restoredState) ==
    LET g1 == restoreFrom(g, m, restoredState, 1)
    IN  IF Thrown(g1) THEN g1
        ELSE [setStage(g1, restoredState.stage) EXCEPT !.score = restoredState.score]

\* A tap listener that takes the last ball without a selected target.
moveLastBallToField(g, z) ==
    LET unplaced == {b \in Balls : g.selectedTarget[b] = Null}
    IN  IF unplaced # {}
        THEN LET lastBall == CHOOSE b \in unplaced : \A c \in unplaced : b >= c
             IN  makePrediction(moveToWithAnimation(g, lastBall), z, lastBall)
        ELSE g

\* moveNextBallToField, the tap listener of the area named z.
moveNextBallToField(g, z) ==
    LET unplaced == {b \in Balls : g.selectedTarget[b] = Null}
    IN  IF unplaced # {}
        THEN LET nextBall == CHOOSE b \in unplaced : \A c \in unplaced : b <= c
             IN  makePrediction(moveToWithAnimation(g, nextBall), z, nextBall)
        ELSE g

\* onTouchStart of ball b, for the touch p.
onTouchStart(g, b, p) ==
    IF g.isAnimating[b] THEN g
    ELSE [g EXCEPT !.isBeingDragged[b] = TRUE, !.dragPointerId[b] = p]

\* onTouchMove of ball b, for the touch p now at loc.
onTouchMove(g, m, b, p, loc) ==
    IF g.isBeingDragged[b] /\ g.dragPointerId[b] = p
    THEN [g EXCEPT !.dragTarget[b] = IF loc \in Range(createFieldOverlay(m))
                                     THEN loc ELSE Null]
    ELSE g

\* onTouchEnd of ball b, for a touch that ends at loc.
onTouchEnd(g, b, loc) ==
    IF g.isAnimating[b] \/ ~g.isBeingDragged[b] THEN g
    ELSE LET g1 == [g EXCEPT !.isBeingDragged[b] = FALSE]
         IN  IF g1.dragTarget[b] # Null
             THEN makePrediction(moveToWithAnimation(g1, b), g1.dragTarget[b], b)
             ELSE IF g1.selectedTarget[b] # Null /\ loc = "slot"
             THEN LET g2 == undoPrediction(g1, g1.selectedTarget[b], b)
                  IN  moveToWithAnimation(g2, b)
             ELSE moveToWithAnimation(g1, b)

\* The touchmove of the touch p at loc, given to every interactive ball from b on.
RECURSIVE moveFrom(_, _, _, _, _)
moveFrom(g, m, b, p, loc) ==
    IF b > NumBalls THEN g
    ELSE moveFrom(IF g.interactive[b] THEN onTouchMove(g, m, b, p, loc) ELSE g,
                  m, b + 1, p, loc)

---------------------------------------------------------------------------
(* Inputs. *)

\* The zones the user taps: the last MaxZones children of the field overlay.
ZoneInputs(m) ==
    LET children == createFieldOverlay(m)
    IN  {children[i] : i \in {j \in DOMAIN children : j > Len(children) - MaxZones}}

\* Play ids of server messages: FLY_OUT, STRIKEOUT, and UNKNOWN or no event at all.
PlayIdInputs == {2, 10, 24}

\* The play ids among them that have a score value.
ScoredPlayIds == {2, 10}

RECURSIVE SeqsUpTo(_, _)
SeqsUpTo(S, n) ==
    IF n = 0 THEN {<<>>}
    ELSE LET shorter == SeqsUpTo(S, n - 1)
         IN  shorter \cup {Append(q, x) : q \in shorter, x \in S}

MessageInputs(ids) ==
    {[event |-> "server:playsCreated", data |-> d] : d \in SeqsUpTo(ids, MaxPlays)}
    \cup {[event |-> "server:clearPredictions", data |-> <<>>],
          [event |-> "server:lineupChanged", data |-> <<>>]}

PointerIds == 0..(MaxPointers - 1)

\* The balls the user drags.
DraggedBalls == {b \in Balls : b <= MaxDragged}

\* Where a touch is: over a zone, inside the ball slot, or anywhere else.
Locations(m) == ZoneInputs(m) \cup {"slot", "elsewhere"}

\* A touch that is not down on a ball.
Up == [ball |-> 0, at |-> "up"]

\* The ids getById is called with: those of both enumerations and some outside.
GetByIdInputs == (0 - MaxOutside)..(Len(LibEvents) - 1 + MaxOutside)

\* No call of getById or getCentroid is being evaluated.
Idle ==
    [op |-> "idle", arg |-> 0, name |-> "", texture |-> <<0, 0>>, i |-> 0,
     area |-> Fraction(0, 1), centroid |-> Point(Wide(0), Wide(0), 1)]

---------------------------------------------------------------------------
(* The state after setup(). *)

Init ==
    /\ bundle \in Bundles
    /\ stage = "INITIAL"
    /\ score = Num(0)
    /\ predictionCounts = [k \in {} |-> Num(0)]
    /\ selectedTarget = [b \in Balls |-> Null]
    /\ isAnimating = [b \in Balls |-> FALSE]
    /\ isBeingDragged = [b \in Balls |-> FALSE]
    /\ dragPointerId = [b \in Balls |-> Null]
    /\ dragTarget = [b \in Balls |-> Null]
    /\ pointers = [p \in PointerIds |-> Up]
    /\ interactive = [b \in Balls |-> TRUE]
    /\ continueVisible = FALSE
    /\ overlays = 0
    /\ lastNotified = <<>>
    /\ saved = <<>>
    /\ trace = <<>>
    /\ lastEvent = [kind |-> "setup", name |-> ""]
    /\ calc = Idle

\* The handler of the event e has run from the current store to g. A hosting
\* application that keeps states may keep any JSON the handler notified.
Handled(g, e, keeps) ==
    /\ stage' = g.stage
    /\ score' = g.score
    /\ predictionCounts' = g.predictionCounts
    /\ selectedTarget' = g.selectedTarget
    /\ isAnimating' = g.isAnimating
    /\ isBeingDragged' = g.isBeingDragged
    /\ dragPointerId' = g.dragPointerId
    /\ dragTarget' = g.dragTarget
    /\ interactive' = g.interactive
    /\ continueVisible' = g.continueVisible
    /\ overlays' = g.overlays
    /\ lastNotified' = g.lastNotified
    /\ trace' = g.trace
    /\ lastEvent' = e
    /\ saved' \in {saved} \cup {<<g.notified[i]>> : i \in {j \in DOMAIN g.notified : keeps}}
    /\ bundle' = bundle
    /\ calc' = calc

\* The user taps a zone of the field; an overlay on top would take the tap.
TapZone(z, keeps) ==
    /\ overlays = 0
    /\ Handled(moveNextBallToField(Store, z), [kind |-> "tap", name |-> z], keeps)
    /\ UNCHANGED pointers

\* The user taps the continue banner, which takes taps while it is visible.
TapContinue(keeps) ==
    /\ overlays = 0
    /\ continueVisible
    /\ Handled(setStage(Store, "CONFIRMED"), [kind |-> "continue", name |-> ""], keeps)
    /\ UNCHANGED pointers

\* The user taps the topmost 'Prediction correct' overlay, which destroys it.
DismissOverlay ==
    /\ overlays > 0
    /\ Handled([Store EXCEPT !.overlays = @ - 1], [kind |-> "dismiss", name |-> ""], FALSE)
    /\ UNCHANGED pointers

\* A scoring message the model still handles (the bounds on score and overlays).
WithinBounds(message) ==
    (stage = "CONFIRMED" /\ message.event = "server:playsCreated")
        => /\ score.t \in {"number", "null"} => score.n < MaxScore
           /\ overlays + Len(message.data) <= MaxOverlays

\* A message arrives, over the WebSocket or as HANDLE_MESSAGE from the host:
\* both listeners pass it to handleIncomingMessage.
IncomingMessage(message, keeps) ==
    /\ WithinBounds(message)
    /\ Handled(handleIncomingMessage(Store, bundle, message),
               [kind |-> "message", name |-> message.event], keeps)
    /\ UNCHANGED pointers

\* RESTORE_GAME_STATE from the hosting application, with a JSON it kept.
RestoreGameState ==
    /\ saved # <<>>
    /\ Handled(fromJSON(Store, bundle, saved[1]), [kind |-> "restore", name |-> ""], FALSE)
    /\ UNCHANGED pointers

\* A touch goes down on ball b: an unplaced ball lies in the slot.
TouchStart(p, b) ==
    /\ pointers[p] = Up
    /\ overlays = 0
    /\ interactive[b]
    /\ Handled(onTouchStart(Store, b, p), [kind |-> "touchstart", name |-> ""], FALSE)
    /\ pointers' = [pointers EXCEPT
                      ![p] = [ball |-> b,
                              at |-> IF selectedTarget[b] = Null THEN "slot"
                                     ELSE "elsewhere"]]

\* The touch p moves to loc: every interactive ball gets the touchmove.
TouchMove(p, loc) ==
    /\ pointers[p] # Up
    /\ pointers[p].at # loc
    /\ Handled(moveFrom(Store, bundle, 1, p, loc), [kind |-> "touchmove", name |-> loc],
               FALSE)
    /\ pointers' = [pointers EXCEPT ![p].at = loc]

\* The touch p ends (touchend, touchendoutside or touchcancel of its ball).
TouchEnd(p) ==
    /\ pointers[p] # Up
    /\ LET b == pointers[p].ball
       IN  Handled(IF interactive[b] THEN onTouchEnd(Store, b, pointers[p].at) ELSE Store,
                   [kind |-> "touchend", name |-> pointers[p].at], FALSE)
    /\ pointers' = [pointers EXCEPT ![p] = Up]

\* The animation sequence of ball b reaches its CallFunc.
AnimationFinished(b) ==
    /\ isAnimating[b]
    /\ Handled([Store EXCEPT !.isAnimating[b] = FALSE],
               [kind |-> "animation", name |-> ""], FALSE)
    /\ UNCHANGED pointers

\* The events of the user and of the server.
Next ==
    \/ \E z \in ZoneInputs(bundle) : TapZone(z, FALSE)
    \/ TapContinue(FALSE)
    \/ DismissOverlay
    \/ \E message \in MessageInputs(PlayIdInputs) : IncomingMessage(message, FALSE)
    \/ \E p \in PointerIds, b \in DraggedBalls : TouchStart(p, b)
    \/ \E p \in PointerIds, loc \in Locations(bundle) : TouchMove(p, loc)
    \/ \E p \in PointerIds : TouchEnd(p)
    \/ \E b \in Balls : AnimationFinished(b)

Spec == Init /\ [][Next]_vars

\* Taps and messages, with a hosting application that keeps notified states
\* and restores them.
RestoreNext ==
    \/ \E z \in ZoneInputs(bundle) : TapZone(z, TRUE)
    \/ TapContinue(TRUE)
    \/ DismissOverlay
    \/ \E message \in MessageInputs(ScoredPlayIds) : IncomingMessage(message, TRUE)
    \/ RestoreGameState

RestoreSpec == Init /\ [][RestoreNext]_vars

\* The store after new GameState() and setup(), before notifyLoaded; what
\* localStorage holds stays.
Loaded ==
    [Store EXCEPT !.stage = "INITIAL", !.score = Num(0),
                  !.predictionCounts = [k \in {} |-> Num(0)],
                  !.selectedTarget = [b \in Balls |-> Null],
                  !.isAnimating = [b \in Balls |-> FALSE],
                  !.isBeingDragged = [b \in Balls |-> FALSE],
                  !.dragPointerId = [b \in Balls |-> Null],
                  !.dragTarget = [b \in Balls |-> Null],
                  !.interactive = [b \in Balls |-> TRUE],
                  !.continueVisible = FALSE,
                  !.overlays = 0]

\* notifyLoaded of the mock bridge: the state in localStorage, if any, is restored.
notifyLoaded(g, m) ==
    IF g.lastNotified # <<>> THEN fromJSON(g, m, g.lastNotified[1]) ELSE g

\* The page is loaded again in a browser, with the mock bridge.
Reload ==
    /\ Handled(notifyLoaded(Loaded, bundle), [kind |-> "reload", name |-> ""], FALSE)
    /\ pointers' = [p \in PointerIds |-> Up]

\* Taps and messages in a browser, where the mock bridge keeps the notified state in
\* localStorage, and reloads of the page.
MockNext ==
    \/ \E z \in ZoneInputs(bundle) : TapZone(z, FALSE)
    \/ TapContinue(FALSE)
    \/ DismissOverlay
    \/ \E message \in MessageInputs(ScoredPlayIds) : IncomingMessage(message, FALSE)
    \/ Reload

MockSpec == Init /\ [][MockNext]_vars

---------------------------------------------------------------------------
(* The calls of PlaybookEvents.getById and of getCentroid, on their own. *)

gameVars == <<bundle, stage, score, predictionCounts, selectedTarget, isAnimating,
              isBeingDragged, dragPointerId, dragTarget, pointers, interactive,
              continueVisible, overlays, lastNotified, saved, trace, lastEvent>>

\* PlaybookEvents.getById(id) returns.
CallGetById(id) ==
    /\ calc.op = "idle"
    /\ calc' = [Idle EXCEPT !.op = "getById", !.arg = id, !.name = getById(bundle, id)]
    /\ UNCHANGED gameVars

\* getCentroid() of the area called name starts: area = 0, i = 0.
CallGetCentroid(name, texture) ==
    /\ calc.op = "idle"
    /\ calc' = [Idle EXCEPT !.op = "getCentroid", !.name = name, !.texture = texture]
    /\ UNCHANGED gameVars

\* One round of the loop that computes the area.
AreaLoop ==
    /\ calc.op = "getCentroid"
    /\ calc.i < numPoints(hitArea(bundle, calc.name, calc.texture))
    /\ LET points == hitArea(bundle, calc.name, calc.texture)
       IN  calc' = [calc EXCEPT !.area = Fraction(@.num + AreaTerm(points, calc.i), 1),
                                !.i = @ + 1]
    /\ UNCHANGED gameVars

\* The loop is over: area /= 2.
AreaHalved ==
    /\ calc.op = "getCentroid"
    /\ calc.i = numPoints(hitArea(bundle, calc.name, calc.texture))
    /\ calc' = [calc EXCEPT !.op = "area", !.area = Halve(@)]
    /\ UNCHANGED gameVars

\* let centroid = new PIXI.Point(), and the second loop starts: i = 0.
NewCentroid ==
    /\ calc.op = "area"
    /\ calc' = [calc EXCEPT !.op = "sum", !.i = 0, !.centroid = Point(Wide(0), Wide(0), 1)]
    /\ UNCHANGED gameVars

\* One round of the loop that sums up centroid.x and centroid.y.
CentroidLoop ==
    /\ calc.op = "sum"
    /\ calc.i < numPoints(hitArea(bundle, calc.name, calc.texture))
    /\ LET points == hitArea(bundle, calc.name, calc.texture)
       IN  calc' = [calc EXCEPT
                      !.centroid = Point(WideAdd(@.x, CentroidTermX(points, calc.i)),
                                         WideAdd(@.y, CentroidTermY(points, calc.i)), 1),
                      !.i = @ + 1]
    /\ UNCHANGED gameVars

\* The loop is over: centroid.x /= area * 6; centroid.y /= area * 6.
CentroidDivided ==
    /\ calc.op = "sum"
    /\ calc.i = numPoints(hitArea(bundle, calc.name, calc.texture))
    /\ calc' = [calc EXCEPT !.op = "centroid",
                            !.centroid = DivideBySixTimes(calc.area, @)]
    /\ UNCHANGED gameVars

\* The caller goes on.
CalcDone ==
    /\ calc.op \in {"getById", "centroid"}
    /\ calc' = Idle
    /\ UNCHANGED gameVars

CalcNext ==
    \/ \E id \in GetByIdInputs : CallGetById(id)
    \/ \E i \in DOMAIN createFieldOverlay(bundle), texture \in TextureSizes :
          CallGetCentroid(createFieldOverlay(bundle)[i], texture)
    \/ AreaLoop
    \/ AreaHalved
    \/ NewCentroid
    \/ CentroidLoop
    \/ CentroidDivided
    \/ CalcDone

CalcSpec == Init /\ [][CalcNext]_vars

---------------------------------------------------------------------------
(* Polygons. *)

\* The vertex i of a points array, i from 0, as <<x, y>>; the indices wrap around.
Vertex(points, i) ==
    <<getXAt(points, i % numPoints(points)), getYAt(points, i % numPoints(points))>>

\* Twice the signed area of the triangle a, b, c.
Cross(a, b, c) == (b[1] - a[1]) * (c[2] - a[2]) - (b[2] - a[2]) * (c[1] - a[1])

Sign(n) == IF n > 0 THEN 1 ELSE IF n < 0 THEN 0 - 1 ELSE 0

Least(a, b) == IF a <= b THEN a ELSE b
Greatest(a, b) == IF a >= b THEN a ELSE b

\* c, collinear with a and b, lies on the segment from a to b.
OnSegment(a, b, c) ==
    /\ Least(a[1], b[1]) <= c[1] /\ c[1] <= Greatest(a[1], b[1])
    /\ Least(a[2], b[2]) <= c[2] /\ c[2] <= Greatest(a[2], b[2])

\* The segments from p to q and from r to s have a point in common.
Intersect(p, q, r, s) ==
    \/ Sign(Cross(p, q, r)) # Sign(Cross(p, q, s)) /\ Sign(Cross(r, s, p)) # Sign(Cross(r, s, q))
    \/ Cross(p, q, r) = 0 /\ OnSegment(p, q, r)
    \/ Cross(p, q, s) = 0 /\ OnSegment(p, q, s)
    \/ Cross(r, s, p) = 0 /\ OnSegment(r, s, p)
    \/ Cross(r, s, q) = 0 /\ OnSegment(r, s, q)

\* Every turn of the boundary goes the same way: all the corners bend like the area.
IsConvex(points) ==
    \A i \in 0..(numPoints(points) - 1) :
        Cross(Vertex(points, i), Vertex(points, i + 1), Vertex(points, i + 2)) < 0

\* No two edges that are not neighbours meet, and no edge has length 0.
IsSimple(points) ==
    LET n == numPoints(points)
    IN  /\ \A i \in 0..(n - 1) : Vertex(points, i) # Vertex(points, i + 1)
        /\ \A i, j \in 0..(n - 1) :
              (i + 1 < j /\ ~(i = 0 /\ j = n - 1))
                  => ~Intersect(Vertex(points, i), Vertex(points, i + 1),
                                Vertex(points, j), Vertex(points, j + 1))

---------------------------------------------------------------------------
(* Properties. *)

PlaysCreated == [kind |-> "message", name |-> "server:playsCreated"]
ClearPredictions == [kind |-> "message", name |-> "server:clearPredictions"]
LineupChanged == [kind |-> "message", name |-> "server:lineupChanged"]

\* The events of the user.
UserInputs == {"tap", "continue", "dismiss", "touchstart", "touchmove", "touchend"}

AllPlaced == \A b \in Balls : selectedTarget[b] # Null
NonePlaced == \A b \in Balls : selectedTarget[b] = Null

\* C1: when 'server:clearPredictions' has been handled, no ball has a target,
\* predictionCounts is empty and the stage is INITIAL.
C1_ClearResetsEverything ==
    lastEvent = ClearPredictions
        => NonePlaced /\ DOMAIN predictionCounts = {} /\ stage = "INITIAL"

\* C2: when the JSON the host kept has been restored, toJSON() gives that JSON again:
\* the same stage, the same score and the same target of every ball.
C2_RestoreRoundTrip ==
    lastEvent.kind = "restore" => toJSON(Store) = saved[1]

\* C3: after every handler the last JSON passed to notifyGameState, if there is
\* one, is the current toJSON().
C3_HostHasCurrentState ==
    lastNotified # <<>> => lastNotified = <<toJSON(Store)>>

\* C4: a play of 'server:playsCreated' is scored, reported and shown in an overlay
\* only when predictionCounts holds a positive count for it.
C4_OnlyPredictedPlaysScore ==
    lastEvent = PlaysCreated
        => \A i \in DOMAIN trace :
              trace[i].op \in {"report", "overlay"}
                  => /\ trace[i].value \in DOMAIN predictionCounts
                     /\ predictionCounts[trace[i].value].t = "number"
                     /\ predictionCounts[trace[i].value].n > 0

\* C5: in stage CONFIRMED no event of the user and no 'server:playsCreated' changes
\* the stage, a ball's target or predictionCounts.
C5_ConfirmedIsFinal ==
    [][(stage = "CONFIRMED"
          /\ (lastEvent'.kind \in UserInputs \/ lastEvent' = PlaysCreated))
        => /\ stage' = "CONFIRMED"
           /\ selectedTarget' = selectedTarget
           /\ predictionCounts' = predictionCounts]_vars

\* C6: in stage CONTINUE every ball is placed, in stage INITIAL some ball is not.
C6_StageFollowsBalls ==
    /\ stage = "CONTINUE" => AllPlaced
    /\ stage = "INITIAL" => ~AllPlaced

\* C7: 'server:playsCreated' outside stage CONFIRMED changes no score, stage, target
\* or count, reports no score, shows no overlay and notifies no state.
C7_PlaysIgnoredUnlessConfirmed ==
    [][(stage # "CONFIRMED" /\ lastEvent' = PlaysCreated)
        => /\ UNCHANGED <<score, stage, selectedTarget, predictionCounts, overlays>>
           /\ UNCHANGED lastNotified
           /\ trace' = <<>>]_vars

\* A play has arrived in stage CONTINUE, with every ball placed.
C7_Witness ==
    lastEvent = PlaysCreated /\ stage = "CONTINUE" /\ AllPlaced /\ trace = <<>>

\* C8: every assignment to the stage, one of the same value too, is followed by one
\* stage-changed event with the new and the old value, given to every listener, and
\* then by one notifyGameState whose JSON has the new stage.
C8_SetterEmitsThenNotifies ==
    /\ \A i \in DOMAIN trace :
          trace[i].op = "assign"
              => /\ i + 2 <= Len(trace)
                 /\ trace[i + 1] = Effect("emit", trace[i].value, trace[i].old)
                 /\ trace[i + 2] = Effect("notify", trace[i].value, "")
    /\ \A i \in DOMAIN trace :
          trace[i].op = "emit" => i > 1 /\ trace[i - 1].op = "assign"
    /\ \A b \in Balls : interactive[b] = (stage # "CONFIRMED")
    /\ continueVisible = (stage = "CONTINUE")

\* A handler has assigned the stage the value it had.
C8_Witness ==
    \E i \in DOMAIN trace : trace[i].op = "assign" /\ trace[i].value = trace[i].old

\* C9: a message with another event changes nothing of the state, reports and
\* notifies nothing.
C9_OtherMessagesIgnored ==
    [][lastEvent' = LineupChanged
        => /\ UNCHANGED <<stage, score, predictionCounts, selectedTarget, isAnimating,
                          isBeingDragged, dragPointerId, dragTarget, interactive,
                          continueVisible, overlays, lastNotified>>
           /\ trace' = <<>>]_vars

\* Such a message has arrived in stage CONFIRMED.
C9_Witness ==
    lastEvent = LineupChanged /\ stage = "CONFIRMED" /\ AllPlaced

\* C10: the field overlay has 17 areas, with pairwise distinct names, each the value
\* of a member of PlaybookEvents that has an entry in ScoreValues.
C10_SeventeenScoredZones ==
    LET children == createFieldOverlay(bundle)
    IN  /\ Len(children) = 17
        /\ \A i, j \in DOMAIN children : children[i] = children[j] => i = j
        /\ \A i \in DOMAIN children :
              children[i] \in PlaybookEvents(bundle) \cap DOMAIN ScoreValues

\* C11: every polygon of the field overlay is convex, does not cross itself and has
\* a negative area in the first loop of getCentroid.
C11_PolygonsConvexSimpleNegative ==
    calc.op = "area"
        => /\ calc.area.num < 0
           /\ IsSimple(hitArea(bundle, calc.name, calc.texture))
           /\ IsConvex(hitArea(bundle, calc.name, calc.texture))

\* C12: getById gives every id from 0 to n - 1 a member of the enumeration, a different
\* one for every id and UNKNOWN for the last; every member has an id; every event it
\* returns has a friendly name; an id outside 0 .. n - 1 gets no event.
C12_GetByIdIsOneToOne ==
    LET n == Cardinality(PlaybookEvents(bundle))
    IN  /\ calc.op = "getById"
            => IF calc.arg \in 0..(n - 1)
               THEN /\ calc.name \in PlaybookEvents(bundle)
                    /\ calc.name \in FriendlyNames(bundle)
                    /\ (calc.name = "UNKNOWN") = (calc.arg = n - 1)
                    /\ \A id \in GetByIdInputs :
                          getById(bundle, id) = calc.name => id = calc.arg
               ELSE calc.name = "undefined"
        /\ \A member \in PlaybookEvents(bundle) :
              \E id \in 0..(n - 1) : getById(bundle, id) = member

\* getById has returned UNKNOWN for the last id of the enumeration.
C12_Witness ==
    /\ calc.op = "getById"
    /\ calc.name = "UNKNOWN"
    /\ calc.arg = Cardinality(PlaybookEvents(bundle)) - 1

\* The number of balls whose selected target is the zone z.
BallsOn(z) == Cardinality({b \in Balls : selectedTarget[b] = z})

C14_ScoreIsANumber ==
    score.t = "number" /\ score.n >= 0

\* C15: in stage CONFIRMED every ball has a selected target.
C15_ConfirmedMeansAllPlaced ==
    stage = "CONFIRMED" => AllPlaced

\* C16: when fromJSON(s) is over, the stage and the score are those recorded in s.
C16_RestoreSetsStageAndScore ==
    lastEvent.kind = "restore" => stage = saved[1].stage /\ score = saved[1].score

\* A restore during which makePrediction assigned a stage that s does not record.
C16_Witness ==
    /\ lastEvent.kind = "restore"
    /\ \E i \in DOMAIN trace : trace[i].op = "assign" /\ trace[i].value # saved[1].stage

\* C17: with the mock bridge, loading the page again leaves the saved state as it
\* is, so that every further reload restores the same stage, score and placements.
C17_ReloadKeepsSaved ==
    [][lastEvent'.kind = "reload" => lastNotified' = lastNotified]_vars

\* The touch p ends in this step and its ball gets the event.
TouchEnded(p) ==
    /\ lastEvent'.kind = "touchend"
    /\ pointers[p] # Up
    /\ pointers'[p] = Up
    /\ interactive[pointers[p].ball]

\* C18: while a ball is being animated, no tap on a zone and no touch event changes
\* its selected target or its drag state.
C18_NoInputWhileAnimating ==
    [][\A b \in Balls :
          (isAnimating[b] /\ lastEvent'.kind \in {"tap", "touchstart", "touchmove", "touchend"})
              => /\ selectedTarget'[b] = selectedTarget[b]
                 /\ isBeingDragged'[b] = isBeingDragged[b]
                 /\ dragPointerId'[b] = dragPointerId[b]
                 /\ dragTarget'[b] = dragTarget[b]]_vars

\* C19: when the touch that drags a ball has ended, the ball is not being dragged.
C19_DragFlagCleared ==
    [][\A p \in PointerIds : TouchEnded(p) => ~isBeingDragged'[pointers[p].ball]]_vars

\* C20: the end of a touch gives its ball a new selected target only when the touch
\* was last moved over that zone.
C20_DropOnlyOnLastZone ==
    [][\A p \in PointerIds :
          (/\ TouchEnded(p)
           /\ selectedTarget'[pointers[p].ball] # Null
           /\ selectedTarget'[pointers[p].ball] # selectedTarget[pointers[p].ball])
              => pointers[p].at = selectedTarget'[pointers[p].ball]]_vars

\* The step undoes the prediction of ball b and of no other ball.
Undone(b) ==
    LET z == selectedTarget[b]
    IN  /\ selectedTarget' = [selectedTarget EXCEPT ![b] = Null]
        /\ predictionCounts' =
               IF predictionCounts[z] = Num(1)
               THEN DeleteCount(predictionCounts, z)
               ELSE SetCount(predictionCounts, z, Num(predictionCounts[z].n - 1))
        /\ stage' = IF stage = "CONTINUE" THEN "INITIAL" ELSE stage

\* The touch p ends inside the ball slot and its ball has a selected target.
ReleasedInSlot(p) ==
    /\ TouchEnded(p)
    /\ isBeingDragged[pointers[p].ball]
    /\ pointers[p].at = "slot"
    /\ selectedTarget[pointers[p].ball] # Null

\* The touch p ends outside every zone, and not as in ReleasedInSlot.
ReleasedElsewhere(p) ==
    /\ TouchEnded(p)
    /\ isBeingDragged[pointers[p].ball]
    /\ pointers[p].at \in {"slot", "elsewhere"}
    /\ ~ReleasedInSlot(p)

\* C21: a dragged ball with a selected target that is released inside the ball slot
\* loses exactly its own prediction (its zone counts one less, its target is null,
\* the other targets stay, CONTINUE becomes INITIAL); a ball released anywhere else
\* outside every zone keeps every target, every count and the stage.
C21_ReleaseInSlotUndoes ==
    [][\A p \in PointerIds :
          /\ ReleasedInSlot(p) => Undone(pointers[p].ball)
          /\ ReleasedElsewhere(p)
                 => UNCHANGED <<selectedTarget, predictionCounts, stage>>]_vars

\* The balls without a selected target.
Unplaced == {b \in Balls : selectedTarget[b] = Null}

\* The step places ball b on the zone z and changes no other prediction.
Placed(b, z) ==
    /\ selectedTarget' = [selectedTarget EXCEPT ![b] = z]
    /\ predictionCounts' =
           SetCount(predictionCounts, z,
                    IF z \in DOMAIN predictionCounts
                    THEN Num(predictionCounts[z].n + 1) ELSE Num(1))
    /\ stage' = IF Unplaced = {b} THEN "CONTINUE" ELSE stage

\* C22: a tap on a zone places the lowest-indexed ball without a selected target on
\* that zone (its target is the zone, the zone counts one more, and the stage
\* becomes CONTINUE exactly when it was the last unplaced ball); when every ball
\* has a selected target the tap changes nothing.
C22_TapPlacesNextBall ==
    [][lastEvent'.kind = "tap" =>
          IF Unplaced = {}
          THEN UNCHANGED <<stage, score, predictionCounts, selectedTarget, isAnimating,
                           isBeingDragged, dragPointerId, dragTarget, interactive,
                           continueVisible, overlays, lastNotified>>
          ELSE \E b \in Unplaced :
                  /\ \A c \in Unplaced : b <= c
                  /\ Placed(b, lastEvent'.name)]_vars

\* A tap has placed the last unplaced ball while lower-indexed balls were placed
\* before it, and the stage became CONTINUE.
C22_Witness ==
    /\ lastEvent.kind = "tap"
    /\ stage = "CONTINUE"
    /\ \E i \in DOMAIN trace : trace[i].op = "assign" /\ trace[i].value = "CONTINUE"

\* C23: the point getCentroid returns for a zone lies inside the hit polygon of
\* that zone, so that a ball moved to the zone rests inside it.
C23_CentroidInsideZone ==
    calc.op = "centroid" => contains(hitArea(bundle, calc.name, calc.texture), calc.centroid)

====
